---- MODULE Spec2Model ----
(***************************************************************************)
(* auto-display (src/src/main.rs): a one-shot program that opens the X11   *)
(* display, enumerates the XRandR sizes, rates and mode descriptors, picks *)
(* the largest size and its highest rate and applies them.                 *)
(*                                                                         *)
(* Fixed-width machine integers are kept at their width.  A value wider    *)
(* than the model checker's own integers is a little-endian sequence of    *)
(* base-256 limbs: 4 limbs for u32, 8 limbs for u64.                       *)
(***************************************************************************)
EXTENDS Integers, Naturals, Sequences, FiniteSets, TLC

(***************************************************************************)
(* Bounds of the enumerated server answers.                                *)
(***************************************************************************)
MaxSizes == 2
MaxRates == 3
MaxModes == 3

(***************************************************************************)
(* Program constants.                                                      *)
(***************************************************************************)
NULL == "NULL"
RR_Rotate_0 == 1
CurrentTime == 0

(***************************************************************************)
(* Limb arithmetic: the machine's u32 / u64 operations.                    *)
(***************************************************************************)
\* zero-extension, `x as u64`
Pad(a, len) == [i \in 1..len |-> IF i <= Len(a) THEN a[i] ELSE 0]

\* n (0 <= n < 2^31) as len >= 4 limbs
ToLimbs(n, len) == Pad([i \in 1..4 |-> (n \div (256 ^ (i - 1))) % 256], len)

IsZero(a) == \A i \in 1..Len(a) : a[i] = 0

\* carry / borrow propagation over column values; the carry out of the top
\* limb is dropped (arithmetic modulo 256^Len(cols))
RECURSIVE Norm(_, _, _)
Norm(cols, i, c) ==
    IF i > Len(cols) THEN <<>>
    ELSE LET t == cols[i] + c
         IN  <<t % 256>> \o Norm(cols, i + 1, t \div 256)

RECURSIVE ColSum(_, _, _, _)
ColSum(a, b, k, i) ==
    IF i > Len(a) THEN 0
    ELSE (IF k - i + 1 >= 1 /\ k - i + 1 <= Len(b) THEN a[i] * b[k - i + 1] ELSE 0)
         + ColSum(a, b, k, i + 1)

\* the exact product, Len(a) + Len(b) limbs
MulFull(a, b) ==
    Norm([k \in 1..(Len(a) + Len(b)) |-> ColSum(a, b, k, 1)], 1, 0)

\* a < b, a = b, for equal lengths
RECURSIVE LessFrom(_, _, _)
LessFrom(a, b, i) ==
    IF i = 0 THEN FALSE
    ELSE IF a[i] # b[i] THEN a[i] < b[i]
    ELSE LessFrom(a, b, i - 1)

Less(a, b) == LessFrom(a, b, Len(a))

Sub(a, b) == Norm([i \in 1..Len(a) |-> a[i] - b[i]], 1, 0)

Bit(a, i) == (a[(i \div 8) + 1] \div (2 ^ (i % 8))) % 2

SetBit(a, i) == [a EXCEPT ![(i \div 8) + 1] = @ + 2 ^ (i % 8)]

\* u64 / u64, divisor not zero: shift-and-subtract long division over the
\* 64 bits of n; the running remainder r has 9 limbs
RECURSIVE DivLoop(_, _, _, _, _)
DivLoop(n, p9, i, r, q) ==
    IF i < 0 THEN q
    ELSE LET r2 == Norm([k \in 1..9 |-> 2 * r[k] + (IF k = 1 THEN Bit(n, i) ELSE 0)], 1, 0)
         IN  IF Less(r2, p9)
             THEN DivLoop(n, p9, i - 1, r2, q)
             ELSE DivLoop(n, p9, i - 1, Sub(r2, p9), SetBit(q, i))

\* the bits above the top non-zero limb of n are zero and leave r and q zero
TopBit(n) == LET nz == { k \in 1..Len(n) : n[k] # 0 }
             IN  IF nz = {} THEN -1 ELSE 8 * (CHOOSE k \in nz : \A j \in nz : j <= k) - 1

Div64(n, p) == DivLoop(n, Pad(p, 9), TopBit(n), ToLimbs(0, 9), ToLimbs(0, 8))

\* u32 * u32 in u32: the wrapped product and whether it overflowed
MulU32(a, b) == SubSeq(MulFull(ToLimbs(a, 4), ToLimbs(b, 4)), 1, 4)

MulU32Overflows(a, b) == ~IsZero(SubSeq(MulFull(ToLimbs(a, 4), ToLimbs(b, 4)), 5, 8))


(***************************************************************************)
(* What the X server may answer.                                           *)
(***************************************************************************)
\* XOpenDisplay: a null or a live connection
Displays == {NULL, "display"}

\* XRootWindow: the "no window" id 0 or a root window id
RootWindows == {0, 417}

\* XRRScreenSize {width, height}: c_int fields
NativeSizes ==
    { [width |-> -1, height |-> 1], [width |-> 1, height |-> -1],
      [width |-> 1, height |-> 2],
      [width |-> 65536, height |-> 65536] }

\* c_short rate values: the server lists distinct rates, here 60, 75, 90, ..
RateLists(n) == { [i \in 1..k |-> 45 + 15 * i] : k \in 0..n }

\* XRRModeInfo {width, height, dotClock, hTotal, vTotal}; dotClock is a
\* c_ulong (8 limbs): 120, 288 and 2^32 + 14; the rates are 60, 14 (of
\* 2^32 + 14), a division by zero, and 144
ModeInfos ==
    { [width |-> 1, height |-> 2, dotClock |-> ToLimbs(120, 8), hTotal |-> 1, vTotal |-> 2],
      [width |-> 1, height |-> 2, dotClock |-> <<14, 0, 0, 0, 1, 0, 0, 0>>, hTotal |-> 1, vTotal |-> 1],
      [width |-> 1, height |-> 2, dotClock |-> ToLimbs(120, 8), hTotal |-> 0, vTotal |-> 2],
      [width |-> 65536, height |-> 65536, dotClock |-> ToLimbs(288, 8), hTotal |-> 2, vTotal |-> 1] }

\* current rotation of a configuration snapshot (RR_Rotate_0, RR_Rotate_90)
Rotations == {1, 2}

SeqsUpTo(S, n) == UNION { [1..k -> S] : k \in 0..n }

\* a (pointer, count) answer: a null pointer, or a buffer with its entries
Answers(lists) == { [ptr |-> NULL, list |-> <<>>] } \cup
                  { [ptr |-> "buf", list |-> l] : l \in lists }

ErrorKinds == {"NotFound", "Other", "InvalidInput", "InvalidData", "Unsupported"}

Ok(v) == [kind |-> "Ok", val |-> v]
Err(k) == [kind |-> k, val |-> <<>>]
Panic == [kind |-> "panic", val |-> <<>>]

Call(c, a, r) == [call |-> c, arg |-> a, ret |-> r]

VARIABLES
    pc,                 \* position of main
    debug_assertions,   \* the build: cfg(debug_assertions) on or off
    d,                  \* main's DisplayInfo {display, root_window}
    safe_sizes,         \* the catalog get_sizes returned
    sizes,              \* main's sizes, sorted
    safe_freqs,         \* the raw rate list read from XRRRates
    modes,              \* the mode descriptors of the XRRScreenResources
    refresh_rates,      \* what get_freqs_by_screen_size returned: Ok(catalog), Err or panic
    freqs,              \* main's freqs, sorted
    screen_info,        \* main's ScreenInfo {conf}
    current_rotation,   \* the rotation stored in the snapshot conf points to
    result,             \* what main returned: Ok, an error kind, or a panic
    log                 \* the Xlib / XRandR calls made, in order

vars == <<pc, debug_assertions, d, safe_sizes, sizes, safe_freqs, modes,
          refresh_rates, freqs, screen_info, current_rotation, result, log>>

(***************************************************************************)
(* DisplayInfo::from_primary                                               *)
(***************************************************************************)
from_primary(display, root_window) ==
    IF display = NULL THEN Err("NotFound")
    ELSE IF root_window = 0 THEN Err("Other")
    ELSE Ok([display |-> display, root_window |-> root_window])

from_primary_calls(display, root_window) ==
    <<Call("XOpenDisplay", <<NULL>>, display)>> \o
    (IF display = NULL THEN <<>>
     ELSE <<Call("XRootWindow", <<display, 0>>, root_window)>>)

(***************************************************************************)
(* get_sizes                                                               *)
(***************************************************************************)
\* a narrowing that clamps a negative value to 0 instead of failing
try_from_clamped(v) == Ok(IF v >= 0 THEN v ELSE 0)

\* u32::try_from(c_int)
try_from(v) == IF v >= 0 THEN Ok(v) ELSE Err("TryFromIntError")

ScreenSize(width, height, i) == [width |-> width, height |-> height, size_index |-> i]

RECURSIVE get_sizes_loop(_, _, _)
get_sizes_loop(xsizes, i, acc) ==
    IF i >= Len(xsizes) THEN Ok(acc)
    ELSE LET size == xsizes[i + 1]
             w == try_from(size.width)
             h == try_from(size.height)
         IN  IF w.kind = "Ok" /\ h.kind = "Ok"
             THEN get_sizes_loop(xsizes, i + 1, Append(acc, ScreenSize(w.val, h.val, i)))
             ELSE Err("Other")

get_sizes(xs) ==
    IF xs.ptr = NULL THEN Err("NotFound")
    ELSE get_sizes_loop(xs.list, 0, <<>>)

get_sizes_calls(dd, xs) ==
    << Call("XRRRootToScreen", <<dd.display, dd.root_window>>, 0),
       Call("XRRSizes", <<dd.display, 0>>, xs) >>

(***************************************************************************)
(* main: the empty check and the two sorts                                 *)
(***************************************************************************)
\* slice::sort_by is a stable sort: element i is preceded by the elements
\* the comparator orders strictly before it and by the equal ones that stood
\* before it.  after holds <<i, j>> when the comparator orders s[i] after s[j].
StableSort(s, after) ==
    LET before(i) == { j \in 1..Len(s) :
                         <<i, j>> \in after \/ (<<j, i>> \notin after /\ j < i) }
    IN  [k \in 1..Len(s) |-> s[CHOOSE i \in 1..Len(s) : Cardinality(before(i)) = k - 1]]

Pairs(s) == (1..Len(s)) \X (1..Len(s))

\* a.width * a.height in u32
size_of(a) == MulU32(a.width, a.height)

\* b_size.cmp(&a_size) is Greater: a sorts after b
sizes_after(a, b) == Less(size_of(a), size_of(b))

\* b.freq.cmp(&a.freq) is Greater
freqs_after(a, b) == Less(a.freq, b.freq)

\* in a build with overflow checks the multiplication panics; the comparator
\* runs on every element once the slice has two
sort_sizes_panics(s, debug) ==
    debug /\ Len(s) >= 2 /\ \E i \in 1..Len(s) : MulU32Overflows(s[i].width, s[i].height)

sort_sizes(s) == StableSort(s, { p \in Pairs(s) : sizes_after(s[p[1]], s[p[2]]) })

\* the comparator with its operands swapped: a.freq.cmp(&b.freq)
freqs_after_swapped(a, b) == Less(b.freq, a.freq)

sort_freqs_ascending(s) == StableSort(s, { p \in Pairs(s) : freqs_after_swapped(s[p[1]], s[p[2]]) })

sort_freqs(s) == StableSort(s, { p \in Pairs(s) : freqs_after(s[p[1]], s[p[2]]) })

\* main without its is_empty check
check_sizes_missing(s) == Ok(s)

check_sizes(s) == IF s = <<>> THEN Err("Unsupported") ELSE Ok(s)


(***************************************************************************)
(* ScreenResources and get_freqs_by_screen_size                            *)
(***************************************************************************)
ScreenResources_from_display(xres) ==
    IF xres.ptr = NULL THEN Err("NotFound") ELSE Ok([res |-> xres.ptr])

num_modes(ms) == Len(ms)

mode_info_get(ms, index) ==
    IF index >= num_modes(ms) THEN Err("InvalidInput") ELSE Ok(ms[index + 1])

\* mode_info.hTotal as u64 * mode_info.vTotal as u64
total_of(mode_info) == MulFull(ToLimbs(mode_info.hTotal, 4), ToLimbs(mode_info.vTotal, 4))

\* (dotClock / (hTotal * vTotal)) as u32, the divisor not zero
refresh_rate_of(mode_info) == SubSeq(Div64(mode_info.dotClock, total_of(mode_info)), 1, 4)

\* the running counter stored in place of the raw rate it indexes
RefreshRate_counter(refresh_rate, raw, freq_index) ==
    [freq |-> refresh_rate, freq_index |-> freq_index]

RefreshRate(refresh_rate, raw, freq_index) ==
    [freq |-> refresh_rate, freq_index |-> raw[freq_index + 1]]

\* the loop over 0..num_modes; acc is refresh_rates
RECURSIVE pair_loop(_, _, _, _, _, _, _)
pair_loop(ms, ssz, raw, debug, i, freq_index, acc) ==
    IF i >= num_modes(ms) THEN Ok(acc)
    ELSE LET got == mode_info_get(ms, i)
             mode_info == got.val
         IN  IF got.kind # "Ok" THEN Err(got.kind)
             ELSE IF IsZero(total_of(mode_info)) THEN Panic
             ELSE IF mode_info.width = ssz.width /\ mode_info.height = ssz.height
             THEN IF debug /\ freq_index >= Len(raw) THEN Panic
                  ELSE IF freq_index >= Len(raw) THEN Err("InvalidData")
                  ELSE pair_loop(ms, ssz, raw, debug, i + 1, freq_index + 1,
                                 Append(acc, RefreshRate(refresh_rate_of(mode_info), raw, freq_index)))
             ELSE pair_loop(ms, ssz, raw, debug, i + 1, freq_index, acc)

get_freqs_by_screen_size(ssz, xrates, xres, debug) ==
    IF xrates.ptr = NULL \/ Len(xrates.list) = 0 THEN Err("NotFound")
    ELSE LET screen_resources == ScreenResources_from_display(xres)
         IN  IF screen_resources.kind # "Ok" THEN Err(screen_resources.kind)
             ELSE pair_loop(xres.list, ssz, xrates.list, debug, 0, 0, <<>>)

\* the calls it makes; the ScreenResources it acquired is dropped when the
\* function is left, by return or by unwinding
get_freqs_calls(dd, ssz, xrates, xres) ==
    << Call("XRRRootToScreen", <<dd.display, dd.root_window>>, 0),
       Call("XRRRates", <<dd.display, 0, ssz.size_index>>, xrates) >> \o
    (IF xrates.ptr = NULL \/ Len(xrates.list) = 0 THEN <<>>
     ELSE <<Call("XRRGetScreenResources", <<dd.display, dd.root_window>>, xres.ptr)>> \o
          (IF xres.ptr = NULL THEN <<>>
           ELSE <<Call("XRRFreeScreenResources", <<xres.ptr>>, 0)>>))

(***************************************************************************)
(* ScreenInfo and the apply block                                          *)
(***************************************************************************)
\* the constructor without its null check
ScreenInfo_from_display_unchecked(conf) == Ok([conf |-> conf])

ScreenInfo_from_display(conf) ==
    IF conf = NULL THEN Err("NotFound") ELSE Ok([conf |-> conf])

\* the out-parameter left at its initial value
XRRConfigCurrentConfiguration_unread(snapshot_rotation, rotation) == rotation

\* XRRConfigCurrentConfiguration(conf, &mut rotation) stores the snapshot's
\* rotation over the initial value
XRRConfigCurrentConfiguration(snapshot_rotation, rotation) == snapshot_rotation

NoDisplay == [display |-> NULL, root_window |-> 0]
NoScreenInfo == [conf |-> NULL]
Unset == [kind |-> "unset", val |-> <<>>]

(***************************************************************************)
(* The run                                                                 *)
(***************************************************************************)
Init ==
    /\ pc = "from_primary"
    /\ debug_assertions \in BOOLEAN
    /\ d = NoDisplay
    /\ safe_sizes = <<>>
    /\ sizes = <<>>
    /\ safe_freqs = <<>>
    /\ modes = <<>>
    /\ refresh_rates = Unset
    /\ freqs = <<>>
    /\ screen_info = NoScreenInfo
    /\ current_rotation = RR_Rotate_0
    /\ result = "running"
    /\ log = <<>>

\* main returns or panics: the locals are dropped next
Leave(r) == pc' = "exit" /\ result' = r

\* let d = DisplayInfo::from_primary()?;
MainFromPrimary ==
    /\ pc = "from_primary"
    /\ \E display \in Displays, root_window \in RootWindows :
         LET r == from_primary(display, root_window)
         IN  /\ log' = log \o from_primary_calls(display, root_window)
             /\ IF r.kind = "Ok"
                THEN d' = r.val /\ pc' = "get_sizes" /\ UNCHANGED result
                ELSE Leave(r.kind) /\ UNCHANGED d
    /\ UNCHANGED <<debug_assertions, safe_sizes, sizes, safe_freqs, modes,
                   refresh_rates, freqs, screen_info, current_rotation>>

\* let mut sizes = get_sizes(&d)?; the empty check; sizes.sort_by(..)
MainGetSizes ==
    /\ pc = "get_sizes"
    /\ \E xs \in Answers(SeqsUpTo(NativeSizes, MaxSizes)) :
         LET r == get_sizes(xs)
             c == IF r.kind = "Ok" THEN check_sizes(r.val) ELSE r
         IN  /\ log' = log \o get_sizes_calls(d, xs)
             /\ safe_sizes' = r.val
             /\ IF c.kind # "Ok" THEN Leave(c.kind) /\ UNCHANGED sizes
                ELSE IF sort_sizes_panics(c.val, debug_assertions)
                     THEN Leave("panic") /\ UNCHANGED sizes
                ELSE sizes' = sort_sizes(c.val) /\ pc' = "get_freqs" /\ UNCHANGED result
    /\ UNCHANGED <<debug_assertions, d, safe_freqs, modes, refresh_rates, freqs,
                   screen_info, current_rotation>>

\* let mut freqs = get_freqs_by_screen_size(&d, &sizes[0])?; freqs.sort_by(..);
\* let max_freq = &freqs[0];
MainGetFreqs ==
    /\ pc = "get_freqs"
    /\ \E xrates \in Answers(RateLists(MaxRates)) :
       \E xres \in IF xrates.ptr = NULL \/ Len(xrates.list) = 0
                   THEN {[ptr |-> NULL, list |-> <<>>]}
                   ELSE Answers(SeqsUpTo(ModeInfos, MaxModes)) :
         \E r \in {get_freqs_by_screen_size(sizes[1], xrates, xres, debug_assertions)} :
             /\ log' = log \o get_freqs_calls(d, sizes[1], xrates, xres)
             /\ safe_freqs' = xrates.list
             /\ modes' = xres.list
             /\ refresh_rates' = r
             /\ IF r.kind # "Ok" THEN Leave(r.kind) /\ UNCHANGED freqs
                ELSE IF r.val = <<>> THEN Leave("panic") /\ freqs' = <<>>
                ELSE freqs' = sort_freqs(r.val) /\ pc' = "from_display" /\ UNCHANGED result
    /\ UNCHANGED <<debug_assertions, d, safe_sizes, sizes, screen_info, current_rotation>>

\* let screen_info = ScreenInfo::from_display(&d)?;
MainFromDisplay ==
    /\ pc = "from_display"
    /\ \E conf \in {NULL, "conf"}, rot \in Rotations :
         LET r == ScreenInfo_from_display(conf)
         IN  /\ log' = Append(log, Call("XRRGetScreenInfo", <<d.display, d.root_window>>, conf))
             /\ IF r.kind = "Ok"
                THEN /\ screen_info' = r.val
                     /\ current_rotation' = rot
                     /\ pc' = "apply"
                     /\ UNCHANGED result
                ELSE Leave(r.kind) /\ UNCHANGED <<screen_info, current_rotation>>
    /\ UNCHANGED <<debug_assertions, d, safe_sizes, sizes, safe_freqs, modes,
                   refresh_rates, freqs>>

\* the unsafe block: read the rotation, XRRSetScreenConfigAndRate; Ok(())
MainApply ==
    /\ pc = "apply"
    /\ LET max_size == sizes[1]
           max_freq == freqs[1]
           rotation == XRRConfigCurrentConfiguration(current_rotation, RR_Rotate_0)
       IN  log' = log \o
             << Call("XRRConfigCurrentConfiguration", <<screen_info.conf>>, rotation),
                Call("XRRSetScreenConfigAndRate",
                     <<d.display, screen_info.conf, d.root_window, max_size.size_index,
                       rotation, max_freq.freq_index, CurrentTime>>, 0) >>
    /\ Leave("Ok")
    /\ UNCHANGED <<debug_assertions, d, safe_sizes, sizes, safe_freqs, modes,
                   refresh_rates, freqs, screen_info, current_rotation>>

\* Drop for ScreenInfo: declared last, dropped first
DropScreenInfo ==
    /\ pc = "exit"
    /\ screen_info.conf # NULL
    /\ log' = Append(log, Call("XRRFreeScreenConfigInfo", <<screen_info.conf>>, 0))
    /\ screen_info' = NoScreenInfo
    /\ UNCHANGED <<pc, debug_assertions, d, safe_sizes, sizes, safe_freqs, modes,
                   refresh_rates, freqs, current_rotation, result>>

\* Drop for DisplayInfo: d is the last local dropped, the process then
\* terminates; a non-zero close status only prints a diagnostic
DropDisplayInfo ==
    /\ pc = "exit"
    /\ screen_info.conf = NULL
    /\ d.display # NULL
    /\ \E res \in {0, 1} :
         log' = Append(log, Call("XCloseDisplay", <<d.display>>, res))
    /\ d' = NoDisplay
    /\ pc' = "done"
    /\ UNCHANGED <<debug_assertions, safe_sizes, sizes, safe_freqs, modes,
                   refresh_rates, freqs, screen_info, current_rotation, result>>

\* main is left with no DisplayInfo to drop: the process terminates
ProcessExit ==
    /\ pc = "exit"
    /\ screen_info.conf = NULL
    /\ d.display = NULL
    /\ pc' = "done"
    /\ UNCHANGED <<debug_assertions, d, safe_sizes, sizes, safe_freqs, modes,
                   refresh_rates, freqs, screen_info, current_rotation, result, log>>

Next ==
    \/ MainFromPrimary
    \/ MainGetSizes
    \/ MainGetFreqs
    \/ MainFromDisplay
    \/ MainApply
    \/ DropScreenInfo
    \/ DropDisplayInfo
    \/ ProcessExit

Spec == Init /\ [][Next]_vars

(***************************************************************************)
(* Reading the call log                                                    *)
(***************************************************************************)
At(c) == { i \in 1..Len(log) : log[i].call = c }

Issued(c) == At(c) # {}

\* the requests of the fixed chain, in the order the program must make them
Chain == << "XOpenDisplay", "XRRSizes", "XRRRates", "XRRGetScreenResources",
            "XRRGetScreenInfo", "XRRSetScreenConfigAndRate" >>

InChain(e) == \E k \in 1..Len(Chain) : Chain[k] = e.call

CallName(e) == e.call

Names(l) == [i \in 1..Len(l) |-> CallName(l[i])]

Requests(l) == Names(SelectSeq(l, InChain))

IsPrefix(a, b) == Len(a) <= Len(b) /\ SubSeq(b, 1, Len(a)) = a

\* acquisitions and releases of the three owned native resources
Acquired(c) == { i \in At(c) : log[i].ret # NULL }

Owned == << <<"XOpenDisplay", "XCloseDisplay">>,
            <<"XRRGetScreenResources", "XRRFreeScreenResources">>,
            <<"XRRGetScreenInfo", "XRRFreeScreenConfigInfo">> >>

Failed == result \notin {"running", "Ok"}

\* C1: when the process has terminated, each resource that was acquired has
\* been released exactly once (and none is ever released more often than it
\* was acquired).
C1_ReleasedExactlyOnce ==
    \A k \in 1..Len(Owned) :
        /\ Cardinality(At(Owned[k][2])) <= Cardinality(Acquired(Owned[k][1]))
        /\ pc = "done" => Cardinality(At(Owned[k][2])) = Cardinality(Acquired(Owned[k][1]))

\* the descriptors of ms whose (width, height) is that of ssz, in list order
Matches(ms, ssz) ==
    LET same(m) == m.width = ssz.width /\ m.height = ssz.height
    IN  SelectSeq(ms, same)

\* get_freqs_by_screen_size got a mode catalog for the selected size
PairingRan == Acquired("XRRGetScreenResources") # {}

\* C2: with n >= 1 raw rates and more than n descriptors of the target size,
\* get_freqs_by_screen_size fails with InvalidData, returns no rate list, and
\* the run issues no snapshot and no apply call.
C2_TooManyMatchesIsInvalidData ==
    (PairingRan /\ Len(safe_freqs) >= 1 /\ Len(Matches(modes, sizes[1])) > Len(safe_freqs))
    => /\ refresh_rates = Err("InvalidData")
       /\ result = "InvalidData"
       /\ ~Issued("XRRGetScreenInfo")
       /\ ~Issued("XRRSetScreenConfigAndRate")

\* C2 for mode lists without a zero hTotal * vTotal, where the division of
\* the rate computation cannot fault.
C2_WithNonZeroTotals ==
    (\A k \in 1..Len(modes) : ~IsZero(total_of(modes[k]))) => C2_TooManyMatchesIsInvalidData

Add(a, b) == Norm([i \in 1..Len(a) |-> a[i] + b[i]], 1, 0)

\* q is the integer quotient n / t: q * t <= n < q * t + t
IsQuotient(q, n, t) ==
    \A qt \in {MulFull(q, t)}, n16 \in {Pad(n, 16)} :
        /\ ~Less(n16, qt)
        /\ Less(n16, Add(qt, Pad(t, 16)))

ExactRate(m) == Div64(m.dotClock, total_of(m))

\* get_freqs_by_screen_size has returned a catalog and main has made no call
\* since; nothing writes refresh_rates, modes, safe_freqs or sizes afterwards
FreqsReturned ==
    /\ refresh_rates.kind = "Ok"
    /\ ~Issued("XRRGetScreenInfo")
    /\ ~Issued("XCloseDisplay")

\* C3 as stated: on success the i-th entry has freq equal to the quotient
\* dotClock / (hTotal * vTotal) of the i-th matching descriptor and freq_index
\* equal to the i-th raw rate.
C3_PairsExactQuotient ==
    FreqsReturned =>
        \A ms \in {Matches(modes, sizes[1])} :
            /\ Len(refresh_rates.val) = Len(ms)
            /\ \A i \in 1..Len(refresh_rates.val) :
                 /\ Pad(refresh_rates.val[i].freq, 8) = ExactRate(ms[i])
                 /\ refresh_rates.val[i].freq_index = safe_freqs[i]

\* C3 amended: on success the catalog has one entry per matching descriptor,
\* in mode-list order; the i-th entry's freq is the low 32 bits of the quotient
\* dotClock / (hTotal * vTotal) of the i-th matching descriptor and its
\* freq_index is the i-th raw rate; other descriptors add and consume nothing.
C3_PairsInOrder ==
    FreqsReturned =>
        \A ms \in {Matches(modes, sizes[1])} :
            /\ Len(ms) <= Len(safe_freqs)
            /\ Len(refresh_rates.val) = Len(ms)
            /\ \A i \in 1..Len(ms) :
                 \A q \in {ExactRate(ms[i])}, t \in {total_of(ms[i])} :
                     /\ IsQuotient(q, ms[i].dotClock, t)
                     /\ refresh_rates.val[i] = [freq |-> SubSeq(q, 1, 4), freq_index |-> safe_freqs[i]]

\* two matching descriptors around one of another size, the second with a
\* quotient of 2^32 + 14 stored as 14
C3_Witness ==
    /\ FreqsReturned
    /\ Len(refresh_rates.val) = 2
    /\ Len(modes) = 3
    /\ modes[2].width # sizes[1].width
    /\ refresh_rates.val[2].freq = ToLimbs(14, 4)
    /\ refresh_rates.val[2].freq_index = safe_freqs[2]

\* width * height as a number
Area(sz) == MulFull(ToLimbs(sz.width, 4), ToLimbs(sz.height, 4))

\* C4: the resolution main selects has an area no smaller than that of every
\* catalog entry, and its size_index is the one passed to the apply call.
C4_SelectedAreaIsMax ==
    sizes # <<>> =>
        /\ \A i \in 1..Len(safe_sizes) : ~Less(Area(sizes[1]), Area(safe_sizes[i]))
        /\ \A i \in At("XRRSetScreenConfigAndRate") : log[i].arg[4] = sizes[1].size_index

\* the first position of cat holding its highest freq
FirstMax(cat) ==
    CHOOSE i \in 1..Len(cat) :
        /\ \A j \in 1..Len(cat) : ~Less(cat[i].freq, cat[j].freq)
        /\ \A j \in 1..(i - 1) : Less(cat[j].freq, cat[i].freq)

\* C5: for a non-empty rate catalog the selected rate is the first catalog
\* entry with the highest freq, and the apply call carries its freq_index.
C5_SelectedRateIsFirstMax ==
    (refresh_rates.kind = "Ok" /\ refresh_rates.val # <<>>) =>
        /\ freqs # <<>>
        /\ \A j \in 1..Len(refresh_rates.val) : ~Less(freqs[1].freq, refresh_rates.val[j].freq)
        /\ freqs[1] = refresh_rates.val[FirstMax(refresh_rates.val)]
        /\ \A i \in At("XRRSetScreenConfigAndRate") : log[i].arg[6] = freqs[1].freq_index

\* applied with a catalog whose highest freq occurs twice, first at position 2
C5_Witness ==
    /\ Issued("XRRSetScreenConfigAndRate")
    /\ Len(refresh_rates.val) = 3
    /\ FirstMax(refresh_rates.val) = 2
    /\ refresh_rates.val[3].freq = refresh_rates.val[2].freq

\* the server answered XRRSizes with a buffer of zero entries
EmptySizeList == \E i \in At("XRRSizes") : log[i].ret.ptr # NULL /\ log[i].ret.list = <<>>

\* C6: an empty size list makes the run fail with Unsupported, with no rate
\* query, no mode-catalog query, no snapshot request and no apply call.
C6_EmptySizesUnsupported ==
    EmptySizeList =>
        /\ result = "Unsupported"
        /\ ~Issued("XRRRates")
        /\ ~Issued("XRRGetScreenResources")
        /\ ~Issued("XRRGetScreenInfo")
        /\ ~Issued("XRRSetScreenConfigAndRate")

C6_Witness == EmptySizeList /\ pc = "done"

\* a request of the chain was answered with a failure
StepFailed ==
    \/ \E i \in At("XOpenDisplay") : log[i].ret = NULL
    \/ \E i \in At("XRootWindow") : log[i].ret = 0
    \/ \E i \in At("XRRSizes") :
         \/ log[i].ret.ptr = NULL
         \/ log[i].ret.list = <<>>
         \/ \E k \in 1..Len(log[i].ret.list) :
              log[i].ret.list[k].width < 0 \/ log[i].ret.list[k].height < 0
    \/ \E i \in At("XRRRates") : log[i].ret.ptr = NULL \/ log[i].ret.list = <<>>
    \/ \E i \in At("XRRGetScreenResources") : log[i].ret = NULL
    \/ refresh_rates.kind \in ErrorKinds
    \/ \E i \in At("XRRGetScreenInfo") : log[i].ret = NULL

\* C7 (state part): the requests follow the fixed chain, the apply call comes
\* at most once and only after every earlier step succeeded, and a failed step
\* gives a failure result.
C7_ChainState ==
    /\ IsPrefix(Requests(log), Chain)
    /\ Cardinality(At("XRRSetScreenConfigAndRate")) <= 1
    /\ Issued("XRRSetScreenConfigAndRate") => ~StepFailed /\ refresh_rates.kind = "Ok"
    /\ StepFailed => result \in ErrorKinds
    /\ Failed => ~Issued("XRRSetScreenConfigAndRate")

\* C7: in every run the requests occur in the order open, sizes, raw rates,
\* mode catalog, snapshot, apply; apply is issued at most once and only after
\* every earlier step succeeded; once a step has failed no further request of
\* the chain is issued and the result stays that failure.
C7_OrderedChain ==
    /\ []C7_ChainState
    /\ [][Failed => (Requests(log') = Requests(log) /\ result' = result)]_vars

\* the snapshot request failed after five successful steps, and the run ended
C7_Witness ==
    /\ pc = "done"
    /\ result = "NotFound"
    /\ \E i \in At("XRRGetScreenInfo") : log[i].ret = NULL
    /\ Issued("XCloseDisplay")

\* the entries of a native size list that do not fit a u32
Misfits(xs) == { k \in 1..Len(xs) : xs[k].width < 0 \/ xs[k].height < 0 }

\* C8: a size list with an entry that does not fit a u32 makes get_sizes fail
\* with Other, with no catalog and no later request; when every entry fits,
\* the i-th ScreenSize has the i-th raw width and height and size_index i.
C8_NarrowingFailsWhole ==
    \A i \in At("XRRSizes") :
        log[i].ret.ptr # NULL =>
            IF Misfits(log[i].ret.list) # {}
            THEN /\ result = "Other"
                 /\ safe_sizes = <<>>
                 /\ sizes = <<>>
                 /\ Requests(log) = <<"XOpenDisplay", "XRRSizes">>
            ELSE safe_sizes = [k \in 1..Len(log[i].ret.list) |->
                                 [width |-> log[i].ret.list[k].width,
                                  height |-> log[i].ret.list[k].height,
                                  size_index |-> k - 1]]

\* the offending entry comes second, after one that fits
C8_Witness ==
    /\ pc = "done"
    /\ \E i \in At("XRRSizes") :
         /\ Len(log[i].ret.list) = 2
         /\ Misfits(log[i].ret.list) = {2}

\* C9: the apply call carries the rotation stored in the snapshot acquired in
\* this run and that snapshot's handle; the snapshot is released only after
\* the apply call and before the connection is closed.
C9_RotationPreserved ==
    /\ \A i \in At("XRRSetScreenConfigAndRate") :
         /\ log[i].arg[5] = current_rotation
         /\ \E j \in Acquired("XRRGetScreenInfo") : j < i /\ log[j].ret = log[i].arg[2]
    /\ \A i \in At("XRRFreeScreenConfigInfo") :
         /\ \E j \in At("XRRSetScreenConfigAndRate") : j < i
         /\ \A j \in At("XCloseDisplay") : i < j
    /\ (pc = "done" /\ Issued("XRRSetScreenConfigAndRate")) => Issued("XRRFreeScreenConfigInfo")

\* applied with a snapshot whose rotation is not RR_Rotate_0, and terminated
C9_Witness ==
    /\ pc = "done"
    /\ current_rotation # RR_Rotate_0
    /\ Issued("XRRSetScreenConfigAndRate")

\* C10: whatever size list, raw rate list and mode list the server reported,
\* the run ends either in success after the apply call or with a returned
\* error of one of the five kinds; it never panics on freqs[0] or on the
\* division of the rate computation.
C10_NoAbnormalTermination ==
    (pc = "done" /\ PairingRan) =>
        \/ result = "Ok" /\ Issued("XRRSetScreenConfigAndRate")
        \/ result \in ErrorKinds /\ ~Issued("XRRSetScreenConfigAndRate")

====
